---- MODULE Spec2Model ----
(***************************************************************************)
(* Model of src/video/ffmpeg.c (moonlight-embedded): decoder selection in  *)
(* ffmpeg_init, hardware negotiation in hwaccel_setup, the frame ring and  *)
(* the submit/receive engine (ffmpeg_decode, ffmpeg_get_frame) and         *)
(* ffmpeg_destroy.  libavcodec is the environment: which decoders exist,   *)
(* whether a codec opens, whether a device can be created and whether an   *)
(* allocation succeeds are nondeterministic.                               *)
(***************************************************************************)
EXTENDS Integers, Sequences, FiniteSets, TLC

\* ---------------------------------------------------------------- bounds
MaxBuf == 3        \* largest buffer_count passed to ffmpeg_init
MaxSubmit == 4     \* access units submitted in one session
MaxFmts == 3       \* longest list of formats passed to get_hw_format

\* ------------------------------------------------------------- constants
NTRIES == 5                    \* for (int try = 0; try < 5; try++)
AV_PIX_FMT_NONE == -1
AV_PIX_FMT_YUV420P == 0
AV_PIX_FMT_NV12 == 23
AV_PIX_FMT_VAAPI == 44
AV_PIX_FMT_VDPAU == 98
AV_PIX_FMT_DRM_PRIME == 179

NULL == 0                      \* null pointer / null handle
NoDecoder == ""                \* const AVCodec* decoder == NULL
SOFTWARE == "SOFTWARE"
VAAPI == "VAAPI"
Families == {"H264", "H265", "AV1", "OTHER"}

\* ------------------------------------------------------------- variables
VARIABLES
  pc,             \* where the caller is: idle, loop, frames, ready, failed, destroyed, crashed
  videoFormat, perf_hw, buffer_count,      \* arguments of ffmpeg_init
  compiled,       \* environment: the decoders avcodec_find_decoder_by_name finds
  hwcfg, swfmt,   \* environment: hw configs of the generic decoder, native sw format of the stream
  try,            \* loop counter of ffmpeg_init
  initRet,        \* value returned by ffmpeg_init (1 = not returned yet)
  pkt, decoder, decoder_ctx, dec_frames, hw_device_ctx, hw_pix_fmt, sw_frame,
  dec_frames_cnt, current_frame, next_frame, ffmpeg_decoder,
  ctxs, devs,     \* libavcodec heap: decoder contexts, hardware device buffers
  slots,          \* the AVFrame objects the ring's array points to
  swf,            \* the AVFrame sw_frame points to
  live,           \* allocation accounting: packets and slot arrays currently held
  doubleFree,     \* some object was released twice
  dq,             \* access units accepted by the decoder, not yet output
  nextAu,         \* id of the next access unit to be submitted
  probeLog,       \* history: lookups, context allocations and opens of ffmpeg_init
  writes,         \* history: ring slot written by each produced frame
  returned,       \* history: ids of the frames returned to the consumer
  lastCall,       \* history: the last engine call and its result
  fmtCall         \* the decoder's call of the get_format callback: list passed, result

vars == <<pc, videoFormat, perf_hw, buffer_count, compiled, hwcfg, swfmt, try, initRet,
          pkt, decoder, decoder_ctx, dec_frames, hw_device_ctx, hw_pix_fmt, sw_frame,
          dec_frames_cnt, current_frame, next_frame, ffmpeg_decoder,
          ctxs, devs, slots, swf, live, doubleFree, dq, nextAu,
          probeLog, writes, returned, lastCall, fmtCall>>

argVars == <<videoFormat, perf_hw, buffer_count, compiled, hwcfg, swfmt>>
ringVars == <<dec_frames, dec_frames_cnt, current_frame, next_frame, slots>>
hwVars == <<hw_device_ctx, hw_pix_fmt, devs>>
histVars == <<writes, returned>>

\* ------------------------------------------------- environment: libavcodec
\* One AVCodecHWConfig: methods & AV_CODEC_HW_CONFIG_METHOD_HW_DEVICE_CTX,
\* device_type, pix_fmt.
cfgVaapi == [devctx |-> TRUE, device_type |-> "vaapi", pix_fmt |-> AV_PIX_FMT_VAAPI]
cfgVdpau == [devctx |-> TRUE, device_type |-> "vdpau", pix_fmt |-> AV_PIX_FMT_VDPAU]
cfgInternal == [devctx |-> FALSE, device_type |-> "drm", pix_fmt |-> AV_PIX_FMT_DRM_PRIME]
CfgLists == { <<>>, <<cfgInternal>>, <<cfgVdpau, cfgInternal, cfgVaapi>> }

GenericDecoders == {"h264", "hevc", "av1"}

\* avcodec_get_hw_config(decoder, i-1), << >> when the decoder advertises none
HwConfigs(name) == IF name \in GenericDecoders THEN hwcfg ELSE <<>>

\* ------------------------------------------------------ decoder cascade
\* The name looked up at iteration t, "" when the iteration assigns nothing
\* to `decoder`; "?" when the video format is not supported.
Candidate(vf, accel, t) ==
  CASE vf = "H264" ->
         IF accel = SOFTWARE /\ t = 0 THEN "h264_nvv4l2"
         ELSE IF accel = SOFTWARE /\ t = 1 THEN "h264_nvmpi"
         ELSE IF accel = SOFTWARE /\ t = 2 THEN "h264_omx"
         ELSE IF accel = SOFTWARE /\ t = 3 THEN "h264_v4l2m2m"
         ELSE IF t = 4 THEN "h264" ELSE ""
    [] vf = "H265" ->
         IF accel = SOFTWARE /\ t = 0 THEN "hevc_nvv4l2"
         ELSE IF accel = SOFTWARE /\ t = 1 THEN "hevc_nvmpi"
         ELSE IF accel = SOFTWARE /\ t = 2 THEN "hevc_omx"
         ELSE IF accel = SOFTWARE /\ t = 3 THEN "hevc_v4l2m2m"
         ELSE IF t = 4 THEN "hevc" ELSE ""
    [] vf = "AV1" ->
         IF accel = SOFTWARE /\ t = 0 THEN "libdav1d"
         ELSE IF t = 1 THEN "av1" ELSE ""
    [] OTHER -> "?"

\* Every name the cascade can look up for a video format
Names(vf) ==
  { Candidate(vf, a, t) : a \in {SOFTWARE, VAAPI}, t \in 0..(NTRIES - 1) } \ {"", "?"}

\* --------------------------------------------------------- hwaccel_setup
\* State threaded through the loop of hwaccel_setup.
HwState(type, fmt, dev, dv, ref) ==
  [type |-> type, hw_pix_fmt |-> fmt, hw_device_ctx |-> dev, devs |-> dv, ctxref |-> ref]

RECURSIVE HwSetupLoop(_, _, _, _)
HwSetupLoop(i, cfgs, devOk, s) ==
  IF i > Len(cfgs) THEN s
  ELSE IF cfgs[i].devctx
       THEN IF devOk[i]
            THEN \* device created (1 reference), decoder context takes a second one
                 HwState(cfgs[i].device_type, cfgs[i].pix_fmt, Len(s.devs) + 1,
                         Append(s.devs, 2), Len(s.devs) + 1)
            ELSE \* av_hwdevice_ctx_create failed: it stores NULL in hw_device_ctx
                 HwSetupLoop(i + 1, cfgs, devOk,
                             HwState("NONE", AV_PIX_FMT_NONE, NULL, s.devs, NULL))
       ELSE HwSetupLoop(i + 1, cfgs, devOk, s)

\* A negotiation that gives up when the first device cannot be created
hwaccel_setup_GivesUp(cfgs, devOk, fmt, dev, dv) ==
  LET c == { i \in 1..Len(cfgs) : cfgs[i].devctx } IN
  IF c = {} THEN HwState("NONE", fmt, dev, dv, NULL)
  ELSE LET f == CHOOSE i \in c : \A j \in c : i <= j IN
       IF devOk[f]
       THEN HwState(cfgs[f].device_type, cfgs[f].pix_fmt, Len(dv) + 1, Append(dv, 2), Len(dv) + 1)
       ELSE HwState("NONE", AV_PIX_FMT_NONE, NULL, dv, NULL)

hwaccel_setup(cfgs, devOk, fmt, dev, dv) ==
  HwSetupLoop(1, cfgs, devOk, HwState("NONE", fmt, dev, dv, NULL))

\* --------------------------------------------------------------- helpers
Unref(dv, d) == IF d = NULL THEN dv ELSE [dv EXCEPT ![d] = @ - 1]
Call(op, native, err, xfer, ret, fmt, slot, id) ==
  [op |-> op, native |-> native, err |-> err, xfer |-> xfer,
   ret |-> ret, fmt |-> fmt, slot |-> slot, id |-> id]
NoCall == Call("none", FALSE, 0, "none", 0, AV_PIX_FMT_NONE, -1, 0)
NoFrame == [st |-> "none", id |-> 0, fmt |-> AV_PIX_FMT_NONE]

\* No call of the get_format callback yet
NoFmtCall == [pix_fmts |-> <<-1>>, wanted |-> AV_PIX_FMT_NONE, ret |-> AV_PIX_FMT_NONE,
              called |-> FALSE]

\* ------------------------------------------------------------------ Init
Init ==
  /\ pc = "idle"
  /\ videoFormat \in Families
  /\ perf_hw \in BOOLEAN
  /\ buffer_count \in 1..MaxBuf
  /\ compiled \in SUBSET Names(videoFormat)
  /\ hwcfg \in CfgLists
  /\ swfmt \in {AV_PIX_FMT_YUV420P, AV_PIX_FMT_NV12}
  /\ try = 0
  /\ initRet = 1
  /\ pkt = NULL /\ decoder = NoDecoder /\ decoder_ctx = NULL /\ dec_frames = NULL
  /\ hw_device_ctx = NULL /\ hw_pix_fmt = 0 /\ sw_frame = NULL
  /\ dec_frames_cnt = 0 /\ current_frame = 0 /\ next_frame = 0
  /\ ffmpeg_decoder = SOFTWARE
  /\ ctxs = <<>> /\ devs = <<>> /\ slots = <<>> /\ swf = NoFrame
  /\ live = [k \in {"pkt", "arr"} |-> 0]
  /\ doubleFree = FALSE
  /\ dq = <<>> /\ nextAu = 1
  /\ probeLog = <<>> /\ writes = <<>> /\ returned = <<>>
  /\ lastCall = NoCall
  /\ fmtCall = NoFmtCall

\* ------------------------------------------------------------ ffmpeg_init
\* Lines 98-111: allocate the packet, pick the acceleration preference.
ffmpeg_init_begin ==
  /\ pc = "idle"
  /\ \E ok \in BOOLEAN :
       IF ok
       THEN /\ pkt' = 1
            /\ live' = [live EXCEPT !["pkt"] = @ + 1]
            /\ ffmpeg_decoder' = IF perf_hw THEN VAAPI ELSE SOFTWARE
            /\ pc' = "loop"
            /\ initRet' = initRet
       ELSE /\ pkt' = NULL
            /\ pc' = "failed"
            /\ initRet' = -1
            /\ UNCHANGED <<live, ffmpeg_decoder>>
  /\ try' = 0
  /\ UNCHANGED <<argVars, fmtCall, decoder, decoder_ctx, sw_frame, ringVars, hwVars, ctxs, swf,
                 doubleFree, dq, nextAu, probeLog, histVars, lastCall>>

\* What the loop does after avcodec_open2 succeeded (lines 184-190): the
\* body ends and the for statement goes on with the next value of try.
AfterOpen(t) == t + 1

\* pc after the loop counter became t
LoopPc(t) == IF t < NTRIES THEN "loop" ELSE "frames"

Event(ev, name, ok) == [ev |-> ev, name |-> name, ok |-> ok]

\* Lines 113-190: one iteration of the candidate loop.
ffmpeg_init_try ==
  /\ pc = "loop"
  /\ try < NTRIES
  /\ LET name == Candidate(videoFormat, ffmpeg_decoder, try) IN
     IF name = "?"
     THEN \* Video format not supported: return -1
          /\ pc' = "failed" /\ initRet' = -1
          /\ UNCHANGED <<try, decoder, decoder_ctx, hwVars, ctxs, probeLog>>
     ELSE \E allocOk \in BOOLEAN, openOk \in BOOLEAN,
             devOk \in [1..Len(hwcfg) -> BOOLEAN] :
       LET found == name \in compiled
           dec == IF name = "" THEN decoder
                  ELSE IF found THEN name ELSE NoDecoder
           log1 == IF name = "" THEN probeLog
                   ELSE Append(probeLog, Event("find", name, found))
       IN
       IF dec = NoDecoder
       THEN \* not compiled into FFmpeg: continue
            /\ decoder' = dec /\ try' = try + 1 /\ pc' = LoopPc(try + 1)
            /\ probeLog' = log1
            /\ UNCHANGED <<initRet, decoder_ctx, hwVars, ctxs>>
       ELSE IF ~allocOk
       THEN \* avcodec_alloc_context3 returned NULL: return -1
            /\ decoder' = dec /\ decoder_ctx' = NULL
            /\ pc' = "failed" /\ initRet' = -1
            /\ probeLog' = Append(log1, Event("alloc", dec, FALSE))
            /\ UNCHANGED <<try, hwVars, ctxs>>
       ELSE
         LET cfgs == HwConfigs(dec)
             hw == IF cfgs # <<>>
                   THEN hwaccel_setup(cfgs, devOk, hw_pix_fmt, hw_device_ctx, devs)
                   ELSE HwState("NONE", hw_pix_fmt, hw_device_ctx, devs, NULL)
             hwaccel == hw.type # "NONE"
             ctx == [dec |-> dec, opened |-> openOk, hwref |-> hw.ctxref,
                     pix_fmt |-> IF hwaccel THEN AV_PIX_FMT_NONE ELSE AV_PIX_FMT_YUV420P,
                     live |-> openOk]
             log2 == Append(Append(log1, Event("alloc", dec, TRUE)),
                            Event("open", dec, openOk))
         IN
         /\ decoder' = dec
         /\ hw_pix_fmt' = hw.hw_pix_fmt
         /\ hw_device_ctx' = hw.hw_device_ctx
         /\ ctxs' = Append(ctxs, ctx)
         /\ probeLog' = log2
         /\ initRet' = initRet
         /\ IF openOk
            THEN /\ decoder_ctx' = Len(ctxs) + 1
                 /\ devs' = hw.devs
                 /\ try' = AfterOpen(try)
                 /\ pc' = LoopPc(AfterOpen(try))
            ELSE \* avcodec_free_context: drops the context's device reference
                 /\ decoder_ctx' = NULL
                 /\ devs' = Unref(hw.devs, hw.ctxref)
                 /\ try' = try + 1
                 /\ pc' = LoopPc(try + 1)
  /\ UNCHANGED <<argVars, fmtCall, pkt, ffmpeg_decoder, sw_frame, ringVars, swf, live,
                 doubleFree, dq, nextAu, histVars, lastCall>>

\* The ring's slot array after the allocation loop of lines 206-212 stopped
\* at slot failAt (failAt = n: every slot was allocated).
AllocSlots(n, failAt) ==
  [i \in 1..n |-> IF i - 1 < failAt THEN [st |-> "alloc", id |-> 0, fmt |-> AV_PIX_FMT_NONE]
                  ELSE IF i - 1 = failAt THEN [st |-> "null", id |-> 0, fmt |-> AV_PIX_FMT_NONE]
                  ELSE [st |-> "uninit", id |-> 0, fmt |-> AV_PIX_FMT_NONE]]

\* Lines 192-223: the decoder check, the ring and the transfer frame.
ffmpeg_init_frames ==
  /\ pc = "frames"
  /\ IF decoder = NoDecoder
     THEN \* Couldn't find decoder
          /\ pc' = "failed" /\ initRet' = -1
          /\ UNCHANGED <<dec_frames, dec_frames_cnt, slots, sw_frame, swf, live>>
     ELSE
       /\ dec_frames_cnt' = buffer_count
       /\ \E arrOk \in BOOLEAN, failAt \in 0..buffer_count, swOk \in BOOLEAN :
            IF ~arrOk
            THEN /\ dec_frames' = NULL
                 /\ pc' = "failed" /\ initRet' = -1
                 /\ UNCHANGED <<slots, sw_frame, swf, live>>
            ELSE /\ dec_frames' = 1
                 /\ live' = [live EXCEPT !["arr"] = @ + 1]
                 /\ slots' = AllocSlots(buffer_count, failAt)
                 /\ IF failAt < buffer_count
                    THEN /\ pc' = "failed" /\ initRet' = -1
                         /\ UNCHANGED <<sw_frame, swf>>
                    ELSE /\ pc' = "ready" /\ initRet' = 0
                         /\ IF hw_device_ctx # NULL
                            THEN IF swOk
                                 THEN /\ sw_frame' = 1
                                      /\ swf' = [swf EXCEPT !.st = "alloc"]
                                 ELSE /\ sw_frame' = NULL
                                      /\ swf' = swf
                            ELSE UNCHANGED <<sw_frame, swf>>
  /\ UNCHANGED <<argVars, fmtCall, try, pkt, decoder, decoder_ctx, hwVars, current_frame, next_frame,
                 ffmpeg_decoder, ctxs, doubleFree, dq, nextAu, probeLog, histVars, lastCall>>

\* ---------------------------------------------------------- get_hw_format
\* Lines 50-59: scan the list the decoder offers (terminated by -1) for the
\* negotiated hardware pixel format.
RECURSIVE ScanFormats(_, _, _)
ScanFormats(pix_fmts, i, wanted) ==
  IF pix_fmts[i] = -1 THEN AV_PIX_FMT_NONE
  ELSE IF pix_fmts[i] = wanted THEN pix_fmts[i]
  ELSE ScanFormats(pix_fmts, i + 1, wanted)

\* A callback that takes the first format of the list
get_hw_format_First(pix_fmts, wanted) == pix_fmts[1]

get_hw_format(pix_fmts, wanted) == ScanFormats(pix_fmts, 1, wanted)

\* The pixel formats a decoder can put in the list it passes
PixFormats == {AV_PIX_FMT_YUV420P, AV_PIX_FMT_NV12, AV_PIX_FMT_VAAPI, AV_PIX_FMT_VDPAU,
               AV_PIX_FMT_DRM_PRIME}

\* Every list of at most MaxFmts formats, terminated by -1
FmtLists == { Append(l, -1) : l \in UNION { [1..n -> PixFormats] : n \in 0..MaxFmts } }

\* The formats hwaccel_setup can have negotiated when the callback is installed
NegotiatedFormats == { c.pix_fmt : c \in { cfgVaapi, cfgVdpau } }

\* The callback on its own: the negotiated format and the list the decoder
\* passes are the inputs.
InitFmt ==
  /\ pc = "idle"
  /\ videoFormat = "H264" /\ perf_hw = FALSE /\ buffer_count = 1
  /\ compiled = {} /\ hwcfg = <<>> /\ swfmt = AV_PIX_FMT_YUV420P
  /\ try = 0 /\ initRet = 1
  /\ pkt = NULL /\ decoder = NoDecoder /\ decoder_ctx = NULL /\ dec_frames = NULL
  /\ hw_device_ctx = NULL /\ sw_frame = NULL
  /\ dec_frames_cnt = 0 /\ current_frame = 0 /\ next_frame = 0
  /\ ffmpeg_decoder = SOFTWARE
  /\ ctxs = <<>> /\ devs = <<>> /\ slots = <<>> /\ swf = NoFrame
  /\ live = [k \in {"pkt", "arr"} |-> 0]
  /\ doubleFree = FALSE
  /\ dq = <<>> /\ nextAu = 1
  /\ probeLog = <<>> /\ writes = <<>> /\ returned = <<>>
  /\ lastCall = NoCall
  /\ hw_pix_fmt \in NegotiatedFormats
  /\ \E l \in FmtLists :
       fmtCall = [pix_fmts |-> l, wanted |-> hw_pix_fmt, ret |-> AV_PIX_FMT_NONE,
                  called |-> FALSE]

\* Lines 50-59: the decoder calls the callback with its list.
get_hw_format_call ==
  /\ ~fmtCall.called
  /\ fmtCall' = [fmtCall EXCEPT !.ret = get_hw_format(fmtCall.pix_fmts, hw_pix_fmt),
                                !.called = TRUE]
  /\ UNCHANGED <<pc, argVars, try, initRet, pkt, decoder, decoder_ctx, sw_frame, ringVars,
                 hwVars, ffmpeg_decoder, ctxs, swf, live, doubleFree, dq, nextAu, probeLog,
                 histVars, lastCall>>

NextFmt == get_hw_format_call

SpecFmt == InitFmt /\ [][NextFmt]_vars

\* The list a decoder offers to its get_format callback: the hardware
\* formats of its configurations, then the stream's software format.
RECURSIVE CfgFormats(_, _)
CfgFormats(cfgs, i) ==
  IF i > Len(cfgs) THEN <<>> ELSE <<cfgs[i].pix_fmt>> \o CfgFormats(cfgs, i + 1)

Offered(name) == CfgFormats(HwConfigs(name), 1) \o <<swfmt, -1>>

\* Pixel format of the frames the active decoder context outputs;
\* AV_PIX_FMT_NONE when format selection fails (the decoder then errors).
OutputFormat(c) ==
  IF c.hwref # NULL THEN get_hw_format(Offered(c.dec), hw_pix_fmt) ELSE swfmt

\* ---------------------------------------------------------- ffmpeg_decode
AVERROR_EAGAIN == -11
AVERROR_EINVAL == -22
AVERROR_INVALIDDATA == -1094995529

\* A submit that swallows the decoder's error
DecodeResultSwallowed(err) == 0

\* Line 290
DecodeResult(err) == IF err < 0 THEN err ELSE 0

\* Lines 277-291.  A null decoder_ctx is dereferenced by avcodec_send_packet:
\* the process dies or the call reports EINVAL.
ffmpeg_decode ==
  /\ pc = "ready"
  /\ nextAu <= MaxSubmit
  /\ nextAu' = nextAu + 1
  /\ IF decoder_ctx = NULL
     THEN \E crash \in BOOLEAN :
            /\ pc' = IF crash THEN "crashed" ELSE pc
            /\ lastCall' = Call("decode", FALSE, AVERROR_EINVAL, IF crash THEN "crash" ELSE "none",
                                DecodeResult(AVERROR_EINVAL), AV_PIX_FMT_NONE, -1, nextAu)
            /\ dq' = dq
     ELSE \E err \in {0, AVERROR_INVALIDDATA, AVERROR_EAGAIN} :
            /\ dq' = IF err = 0 THEN Append(dq, nextAu) ELSE dq
            /\ lastCall' = Call("decode", FALSE, err, "none", DecodeResult(err),
                                AV_PIX_FMT_NONE, -1, nextAu)
            /\ pc' = pc
  /\ UNCHANGED <<argVars, fmtCall, try, initRet, pkt, decoder, decoder_ctx, sw_frame, ringVars, hwVars,
                 ffmpeg_decoder, ctxs, swf, live, doubleFree, probeLog, histVars>>

\* ------------------------------------------------------- ffmpeg_get_frame
\* A receive that treats every result but EAGAIN as a frame
FrameReceivedUnlessAgain(err) == err # AVERROR_EAGAIN

\* Line 249: avcodec_receive_frame delivered a frame
FrameReceived(err) == err = 0

\* A ring whose next index never leaves the current slot
AdvanceNextStuck(cur, cnt) == cur

\* A ring that wraps one slot too late
AdvanceNextOffByOne(cur, cnt) == (cur + 1) % (cnt + 1)

\* Line 251
AdvanceNext(cur, cnt) == (cur + 1) % cnt

\* Lines 253-266 and 272: which frame the call hands back once the decoder
\* wrote `fmt` into the ring slot: "slot" (the ring frame), "sw" (the
\* transfer frame, after a transfer) or "null".  xfer is the outcome of
\* av_hwframe_transfer_data: "ok", "fail", or "none" when it is not called.
NeedsTransfer(accel, native, fmt, hwfmt) ==
  (accel = SOFTWARE \/ native) /\ fmt = hwfmt

Handback(accel, native, fmt, hwfmt, xfer) ==
  IF accel = SOFTWARE \/ native
  THEN IF fmt = hwfmt
       THEN IF xfer = "ok" THEN "sw" ELSE "null"
       ELSE "slot"
  ELSE "null"

\* A receive that hands back the slot the ring advanced to
ReturnedSlotStale(frameIdx, nextIdx) == nextIdx

\* Line 263: the ring frame handed back is `frame`, the slot the decoder
\* wrote (the slot that was next_frame when the call began).
ReturnedSlot(frameIdx, nextIdx) == frameIdx

\* Outcomes of av_hwframe_transfer_data(sw_frame, frame, 0).  With a null
\* sw_frame the destination is dereferenced: the process dies or the call
\* fails.  A frame without a hardware frames context cannot be transferred.
TransferOutcomes(c) ==
  IF sw_frame = NULL THEN {"crash", "fail"}
  ELSE IF c.hwref = NULL THEN {"fail"}
  ELSE {"ok", "fail"}

ffmpeg_get_frame(native_frame) ==
  /\ pc = "ready"
  /\ IF decoder_ctx = NULL
     THEN \* avcodec_receive_frame dereferences the null context
          \E crash \in BOOLEAN :
            /\ pc' = IF crash THEN "crashed" ELSE pc
            /\ lastCall' = Call("get", native_frame, AVERROR_EINVAL,
                                IF crash THEN "crash" ELSE "none", 0, AV_PIX_FMT_NONE, -1, 0)
            /\ UNCHANGED <<dq, current_frame, next_frame, slots, swf, histVars>>
     ELSE
       \* EAGAIN: nothing to output yet; any other error: the decoder gives
       \* up on the access unit it was decoding
       LET c == ctxs[decoder_ctx]
           fmt == OutputFormat(c)
           errs == {AVERROR_EAGAIN, AVERROR_INVALIDDATA}
                     \cup (IF dq # <<>> /\ fmt # AV_PIX_FMT_NONE THEN {0} ELSE {})
       IN
       \E err \in errs :
         LET frame == next_frame
             \* what the decoder did: on success it wrote the head of its
             \* queue into `frame`
             wrote == IF err = 0 THEN [st |-> "alloc", id |-> Head(dq), fmt |-> fmt]
                      ELSE slots[frame + 1]
             ring == [slots EXCEPT ![frame + 1] = wrote]
             id == wrote.id
         IN
         IF ~FrameReceived(err)
         THEN /\ dq' = IF err # AVERROR_EAGAIN /\ dq # <<>> THEN Tail(dq) ELSE dq
              /\ lastCall' = Call("get", native_frame, err, "none", 0, AV_PIX_FMT_NONE, -1, 0)
              /\ pc' = pc
              /\ slots' = ring
              /\ writes' = IF err = 0 THEN Append(writes, frame) ELSE writes
              /\ UNCHANGED <<current_frame, next_frame, swf, returned>>
         ELSE
           LET xfers == IF NeedsTransfer(ffmpeg_decoder, native_frame, fmt, hw_pix_fmt)
                        THEN TransferOutcomes(c) ELSE {"none"}
           IN
           \E xfer \in xfers :
             LET back == Handback(ffmpeg_decoder, native_frame, fmt, hw_pix_fmt, xfer)
                 cur == frame
                 nxt == AdvanceNext(cur, dec_frames_cnt)
                 sw == IF xfer = "ok" THEN [st |-> "alloc", id |-> id, fmt |-> AV_PIX_FMT_NV12]
                       ELSE swf
                 rslot == ReturnedSlot(frame, nxt)
                 out == IF back = "sw" THEN sw
                        ELSE IF back = "slot" THEN ring[rslot + 1] ELSE NoFrame
             IN
             /\ dq' = IF dq # <<>> /\ err # AVERROR_EAGAIN THEN Tail(dq) ELSE dq
             /\ slots' = ring
             /\ current_frame' = cur
             /\ next_frame' = nxt
             /\ writes' = IF err = 0 THEN Append(writes, frame) ELSE writes
             /\ swf' = sw
             /\ pc' = IF xfer = "crash" THEN "crashed" ELSE pc
             /\ returned' = IF back = "null" THEN returned ELSE Append(returned, out.id)
             /\ lastCall' = Call("get", native_frame, err, xfer, IF back = "null" THEN 0 ELSE 1,
                                 out.fmt, IF back = "slot" THEN rslot ELSE -1, out.id)
  /\ UNCHANGED <<argVars, fmtCall, try, initRet, pkt, decoder, decoder_ctx, sw_frame, dec_frames,
                 dec_frames_cnt, hwVars, ffmpeg_decoder, ctxs, live, doubleFree, nextAu, probeLog>>

\* --------------------------------------------------------- ffmpeg_destroy
\* av_frame_free on every non-null slot pointer (lines 238-243)
FreeSlots(sl) ==
  [i \in 1..Len(sl) |-> IF sl[i].st = "alloc" THEN [sl[i] EXCEPT !.st = "freed"] ELSE sl[i]]

\* Lines 227-244
ffmpeg_destroy ==
  /\ pc = "ready"
  /\ pc' = "destroyed"
  /\ sw_frame' = NULL
  /\ swf' = IF sw_frame # NULL THEN [swf EXCEPT !.st = "freed"] ELSE swf
  /\ hw_device_ctx' = NULL
  /\ pkt' = NULL
  /\ live' = IF pkt # NULL THEN [live EXCEPT !["pkt"] = @ - 1] ELSE live
  /\ decoder_ctx' = NULL
  /\ ctxs' = IF decoder_ctx # NULL THEN [ctxs EXCEPT ![decoder_ctx].live = FALSE] ELSE ctxs
  /\ devs' = LET d1 == Unref(devs, hw_device_ctx)
             IN IF decoder_ctx # NULL THEN Unref(d1, ctxs[decoder_ctx].hwref) ELSE d1
  /\ doubleFree' = (doubleFree \/ (decoder_ctx # NULL /\ ~ctxs[decoder_ctx].live)
                               \/ (sw_frame # NULL /\ swf.st = "freed"))
  /\ slots' = IF dec_frames # NULL THEN FreeSlots(slots) ELSE slots
  /\ lastCall' = Call("destroy", FALSE, 0, "none", 0, AV_PIX_FMT_NONE, -1, 0)
  /\ UNCHANGED <<argVars, fmtCall, try, initRet, decoder, dec_frames, dec_frames_cnt, current_frame,
                 next_frame, hw_pix_fmt, ffmpeg_decoder, dq, nextAu, probeLog, histVars>>

\* ------------------------------------------------------------------ Next
Next ==
  \/ ffmpeg_init_begin
  \/ ffmpeg_init_try
  \/ ffmpeg_init_frames
  \/ ffmpeg_decode
  \/ \E native_frame \in BOOLEAN : ffmpeg_get_frame(native_frame)
  \/ ffmpeg_destroy

\* The decoder cascade of ffmpeg_init alone, for every codec family.
NextInit ==
  \/ ffmpeg_init_begin
  \/ ffmpeg_init_try
  \/ ffmpeg_init_frames

SpecInit == Init /\ [][NextInit]_vars

\* Whole sessions (init, submit/receive, destroy) of one codec family on a
\* build with the generic decoder and at most one platform decoder; the
\* families differ only in the names the cascade looks up.
EngineFormats == {"H264"}
EngineBuilds == SUBSET {"h264_v4l2m2m", "h264"}
InitEngine == Init /\ videoFormat \in EngineFormats /\ compiled \in EngineBuilds

Spec == InitEngine /\ [][Next]_vars

TypeOK ==
  /\ pc \in {"idle", "loop", "frames", "ready", "failed", "destroyed", "crashed"}
  /\ try \in 0..NTRIES
  /\ next_frame \in 0..MaxBuf /\ current_frame \in 0..MaxBuf
  /\ hw_pix_fmt \in {AV_PIX_FMT_NONE, AV_PIX_FMT_YUV420P, AV_PIX_FMT_VAAPI, AV_PIX_FMT_VDPAU}

\* ================================================================ claims
\* The documented priority order of the candidates
PriorityOrder(vf, accel) ==
  CASE vf = "H264" /\ accel = SOFTWARE ->
         <<"h264_nvv4l2", "h264_nvmpi", "h264_omx", "h264_v4l2m2m", "h264">>
    [] vf = "H264" /\ accel = VAAPI -> <<"h264">>
    [] vf = "H265" /\ accel = SOFTWARE ->
         <<"hevc_nvv4l2", "hevc_nvmpi", "hevc_omx", "hevc_v4l2m2m", "hevc">>
    [] vf = "H265" /\ accel = VAAPI -> <<"hevc">>
    [] vf = "AV1" /\ accel = SOFTWARE -> <<"libdav1d", "av1">>
    [] vf = "AV1" /\ accel = VAAPI -> <<"av1">>
    [] OTHER -> <<>>

Pos(seq, x) == IF \E i \in 1..Len(seq) : seq[i] = x
               THEN CHOOSE i \in 1..Len(seq) : seq[i] = x ELSE 0

IsOpen(e) == e.ev = "open"
IsOpenOk(e) == e.ev = "open" /\ e.ok
OpenEvents == SelectSeq(probeLog, IsOpen)
SomeOpened == \E i \in 1..Len(probeLog) : IsOpenOk(probeLog[i])
FirstOpened == probeLog[CHOOSE i \in 1..Len(probeLog) :
                          /\ IsOpenOk(probeLog[i])
                          /\ \A j \in 1..(i - 1) : ~IsOpenOk(probeLog[j])].name
InitReturned == pc \in {"ready", "failed"}
LoopCompleted == InitReturned /\ try = NTRIES
AllocFailed == \E i \in 1..Len(probeLog) : probeLog[i].ev = "alloc" /\ ~probeLog[i].ok
RingReached == dec_frames_cnt # 0
RingFailed == RingReached /\ (dec_frames = NULL \/ \E i \in 1..Len(slots) : slots[i].st = "null")
SlotFailed == RingReached /\ \E i \in 1..Len(slots) : slots[i].st = "null"
LiveCtxs == {i \in 1..Len(ctxs) : ctxs[i].live}
LiveDevs == {d \in 1..Len(devs) : devs[d] > 0}
LiveSlots == {i \in 1..Len(slots) : slots[i].st = "alloc"}

\* C1: candidates are opened in the documented priority order, nothing is
\* looked up, allocated or opened after a candidate opened successfully, and
\* the session uses the first candidate that opened.
C1_StopsAtFirstOpened ==
  /\ \A i \in 1..Len(probeLog) : IsOpenOk(probeLog[i]) => i = Len(probeLog)
  /\ \A i, j \in 1..Len(OpenEvents) :
       i < j => Pos(PriorityOrder(videoFormat, ffmpeg_decoder), OpenEvents[i].name)
                  < Pos(PriorityOrder(videoFormat, ffmpeg_decoder), OpenEvents[j].name)
  /\ (pc = "ready" /\ SomeOpened) =>
       (decoder_ctx # NULL /\ ctxs[decoder_ctx].dec = FirstOpened)

\* C2: when every candidate that was tried failed to open, init returns a
\* negative result and holds no packet, decoder context or device context.
C2_AllFailedReleasesAll ==
  (LoopCompleted /\ OpenEvents # <<>> /\ ~SomeOpened /\ ~RingFailed) =>
    /\ initRet < 0
    /\ pkt = NULL /\ live["pkt"] = 0
    /\ decoder_ctx = NULL /\ LiveCtxs = {}
    /\ hw_device_ctx = NULL /\ LiveDevs = {}

\* C3: when some candidate opened and no allocation failed, init returns
\* success, whatever happened to the candidates after it.
C3_OpenedMeansSuccess ==
  (InitReturned /\ SomeOpened /\ ~AllocFailed /\ ~RingFailed) => initRet = 0

\* C9: when a ring slot cannot be allocated init fails, and by then the
\* slots allocated before it and the slot array have been released.
C9_PartialRingReleased ==
  (InitReturned /\ SlotFailed) =>
    (initRet < 0 /\ LiveSlots = {} /\ live["arr"] = 0)

\* The session is past a successful init
Running == pc \in {"ready", "crashed", "destroyed"}
Produced == lastCall.op = "get" /\ lastCall.err = 0
HardwareBacked == decoder_ctx # NULL /\ ctxs[decoder_ctx].hwref # NULL
SoftwareBacked == decoder_ctx # NULL /\ ctxs[decoder_ctx].hwref = NULL

\* C4: the k-th produced frame is written to ring slot (k-1) mod N, and the
\* slot to be written next is always (number of produced frames) mod N, so
\* a call without a frame consumes no slot.
C4_RoundRobin ==
  Running =>
    /\ \A k \in 1..Len(writes) : writes[k] = (k - 1) % buffer_count
    /\ next_frame = Len(writes) % buffer_count
    /\ (writes # <<>> => current_frame = writes[Len(writes)])

C4_Wrapped ==
  /\ pc = "ready" /\ buffer_count = 3
  /\ Len(writes) = buffer_count + 1
  /\ writes[buffer_count + 1] = writes[1]
  /\ lastCall.op = "get" /\ lastCall.err # 0

\* C5: with hardware preference and wantsCpuAccessible = false, a produced
\* frame is returned as the ring slot just written, without a transfer.
C5_ZeroCopyReturned ==
  (Produced /\ ffmpeg_decoder = VAAPI /\ ~lastCall.native) =>
    (lastCall.ret = 1 /\ lastCall.slot = current_frame /\ lastCall.xfer = "none")

\* C6: a receiveFrame(true) call in which the decoder produced a frame hands
\* back a CPU-resident frame, for a software-backed decoder always and for a
\* hardware-backed one unless the transfer reported a failure.
C6_CpuFrameReturned ==
  (Produced /\ lastCall.native /\ (SoftwareBacked \/ lastCall.xfer # "fail")) =>
    (pc = "ready" /\ lastCall.ret = 1 /\ lastCall.fmt # hw_pix_fmt)

\* C7: a rejected submit returns the decoder's negative error and leaves the
\* ring, the frames, the active decoder, the transfer frame and the decoder's
\* pending output untouched, with the engine still accepting calls; an
\* accepted submit returns 0.
C7_RejectIsNoOp ==
  [][ (nextAu' = nextAu + 1 /\ decoder_ctx # NULL) =>
        /\ lastCall'.op = "decode"
        /\ lastCall'.err < 0 =>
             /\ lastCall'.ret < 0 /\ lastCall'.ret = lastCall'.err
             /\ pc' = "ready"
             /\ UNCHANGED <<dec_frames, dec_frames_cnt, current_frame, next_frame, slots,
                            decoder, decoder_ctx, ctxs, sw_frame, swf, hwVars, pkt, dq,
                            writes, returned>>
        /\ lastCall'.err = 0 => (lastCall'.ret = 0 /\ pc' = "ready") ]_vars

C7_Rejected ==
  /\ pc = "ready" /\ decoder_ctx # NULL
  /\ lastCall.op = "decode" /\ lastCall.err < 0 /\ lastCall.ret < 0
  /\ dq # <<>> /\ writes # <<>>

\* C8: after destroy nothing acquired by init is still allocated and nothing
\* was released twice.
C8_DestroyReleasesAll ==
  pc = "destroyed" =>
    /\ live["pkt"] = 0 /\ live["arr"] = 0
    /\ LiveCtxs = {} /\ LiveDevs = {}
    /\ swf.st # "alloc" /\ LiveSlots = {}
    /\ ~doubleFree

\* C10: frames come back in submission order, and a frame that comes back
\* is the one the decoder produced in that very call.
C10_InOrder ==
  /\ \A i, j \in 1..Len(returned) : i < j => returned[i] < returned[j]
  /\ \A i \in 1..Len(returned) : returned[i] \in 1..(nextAu - 1)
  /\ (Produced /\ lastCall.ret = 1) =>
       /\ lastCall.id = slots[writes[Len(writes)] + 1].id
       /\ lastCall.id = returned[Len(returned)]
       /\ \A k \in 1..Len(dq) : lastCall.id < dq[k]

C10_ReturnedAfterWrap ==
  /\ pc = "ready" /\ buffer_count = 2
  /\ Len(returned) >= 3 /\ Len(writes) > Len(returned)

\* C11: at any time at most one decoder context allocated by init exists,
\* and when init returned success exactly one exists, it is open and it is
\* the one decoder_ctx refers to.
C11_OneOpenedContext ==
  /\ Cardinality(LiveCtxs) <= 1
  /\ (pc = "ready" /\ initRet = 0) =>
       (decoder_ctx # NULL /\ LiveCtxs = {decoder_ctx} /\ ctxs[decoder_ctx].opened)

\* C17: a transfer is attempted only when the transfer frame was allocated,
\* so a produced frame matches the recorded hardware format only in a
\* session that created a device.
C17_TransferNeedsTransferFrame ==
  (Produced /\ lastCall.xfer # "none") =>
    (sw_frame # NULL /\ swf.st = "alloc" /\ devs # <<>>)

\* C18: after a successful init a recorded device or hardware format belongs
\* to the active decoder, which references that device, and never more than
\* one device created by init exists.
C18_HwStateBelongsToActive ==
  /\ Cardinality(LiveDevs) <= 1
  /\ (pc = "ready" /\ initRet = 0) =>
       /\ hw_device_ctx # NULL =>
            (decoder_ctx # NULL /\ ctxs[decoder_ctx].hwref = hw_device_ctx)
       /\ hw_pix_fmt \notin {AV_PIX_FMT_NONE, 0} =>
            (decoder_ctx # NULL /\ ctxs[decoder_ctx].hwref # NULL
             /\ hw_device_ctx = ctxs[decoder_ctx].hwref)
       /\ LiveDevs \subseteq {hw_device_ctx}

\* C13: when a produced frame is to be handed back as CPU pixels, a
\* hardware-resident frame goes through the transfer frame (returned on
\* success; on failure nothing is returned, the frame never comes back and
\* the ring has moved on), and a CPU-resident frame is returned as the ring
\* slot itself without a transfer.
C13_TransferOrDirect ==
  (Produced /\ (ffmpeg_decoder = SOFTWARE \/ lastCall.native)) =>
    /\ HardwareBacked =>
         /\ lastCall.xfer \in {"ok", "fail"}
         /\ lastCall.xfer = "ok" =>
              (lastCall.ret = 1 /\ lastCall.slot = -1 /\ lastCall.id = swf.id
               /\ lastCall.id = slots[current_frame + 1].id)
         /\ lastCall.xfer = "fail" =>
              (lastCall.ret = 0 /\ pc = "ready"
               /\ next_frame = (current_frame + 1) % buffer_count
               /\ \A i \in 1..Len(returned) : returned[i] # slots[current_frame + 1].id)
    /\ SoftwareBacked =>
         (lastCall.xfer = "none" /\ lastCall.ret = 1 /\ lastCall.slot = current_frame
          /\ lastCall.fmt = swfmt)

\* A step in which ffmpeg_get_frame ran on an existing decoder context
GetStep ==
  /\ pc = "ready" /\ decoder_ctx # NULL
  /\ lastCall'.op = "get" /\ nextAu' = nextAu

\* C14: a receive in which the decoder has no frame (EAGAIN) or reports
\* another error returns no frame, leaves the ring indices, the frames, the
\* transfer frame and the active decoder as they were, and the engine keeps
\* accepting calls.
C14_NoFrameIsNoOp ==
  [][ (GetStep /\ lastCall'.err # 0) =>
        /\ lastCall'.ret = 0 /\ lastCall'.xfer = "none"
        /\ pc' = "ready"
        /\ UNCHANGED <<current_frame, next_frame, slots, dec_frames, dec_frames_cnt,
                       sw_frame, swf, decoder, decoder_ctx, ctxs, hwVars, writes, returned>> ]_vars

C14_ErrorReported ==
  /\ pc = "ready" /\ decoder_ctx # NULL
  /\ lastCall.op = "get" /\ lastCall.err = AVERROR_INVALIDDATA /\ lastCall.ret = 0
  /\ writes # <<>> /\ dq # <<>> /\ nextAu <= MaxSubmit

\* C12 as stated: in a session that hands every produced frame to a working
\* transfer frame, once a frame has been returned the current slot holds the
\* frame most recently returned and next = (current + 1) mod N.
C12_CurrentIsLastReturned ==
  (pc = "ready" /\ ffmpeg_decoder = SOFTWARE /\ HardwareBacked /\ sw_frame # NULL
     /\ returned # <<>>) =>
    /\ next_frame \in 0..(buffer_count - 1)
    /\ slots[current_frame + 1].id = returned[Len(returned)]
    /\ next_frame = (current_frame + 1) % buffer_count

\* C12 amended: the next index always lies in 0..N-1; once the decoder has
\* produced a frame the current index is the slot of the frame most
\* recently produced (returned or not) and next = (current + 1) mod N; the
\* indices do not move in a receive in which the decoder produced no frame.
C12_CurrentIsLastProduced ==
  /\ [](Running =>
          /\ next_frame \in 0..(buffer_count - 1)
          /\ dec_frames_cnt = buffer_count
          /\ writes # <<>> =>
               /\ current_frame = writes[Len(writes)]
               /\ next_frame = (current_frame + 1) % buffer_count
               /\ \A i \in 1..Len(slots) : slots[i].id <= slots[current_frame + 1].id
               /\ \A i \in 1..Len(returned) : returned[i] <= slots[current_frame + 1].id
               /\ (Produced /\ lastCall.ret = 1 /\ lastCall.slot >= 0) =>
                    lastCall.slot = current_frame)
  /\ [][ (GetStep /\ lastCall'.err # 0) => UNCHANGED <<current_frame, next_frame>> ]_vars

C12_DroppedFrameMovedCurrent ==
  /\ pc = "ready" /\ HardwareBacked /\ sw_frame # NULL
  /\ Produced /\ lastCall.xfer = "fail" /\ lastCall.ret = 0
  /\ returned # <<>>
  /\ slots[current_frame + 1].id > returned[Len(returned)]

\* Configurations of a list that bind through a device context, and those
\* among them whose device can be created
DeviceConfigs(cfgs) == { i \in 1..Len(cfgs) : cfgs[i].devctx }
Creatable(cfgs, devOk) == { i \in DeviceConfigs(cfgs) : devOk[i] }
Negotiated(c) == c.dec \in GenericDecoders /\ hwcfg # <<>>

\* C15: negotiation is never fatal to a candidate. From the current static
\* state, for every advertised list and every outcome of device creation:
\* negotiation binds exactly the first device-context configuration whose
\* device is created (one new device, type and format of that
\* configuration), and when none is created it reports failure with the
\* recorded format cleared and no device bound. Every candidate whose
\* negotiation failed got the planar software format, every allocated
\* candidate went on to avcodec_open2, and no negotiation created more
\* than one device.
C15_NegotiationNeverFatal ==
  /\ \A cfgs \in CfgLists \ {<<>>} : \A devOk \in [1..Len(cfgs) -> BOOLEAN] :
       LET r == hwaccel_setup(cfgs, devOk, hw_pix_fmt, hw_device_ctx, devs)
           ok == Creatable(cfgs, devOk)
       IN IF ok # {}
          THEN LET f == CHOOSE i \in ok : \A j \in ok : i <= j IN
               /\ r.type = cfgs[f].device_type
               /\ r.hw_pix_fmt = cfgs[f].pix_fmt
               /\ Len(r.devs) = Len(devs) + 1
               /\ SubSeq(r.devs, 1, Len(devs)) = devs
               /\ r.hw_device_ctx = Len(devs) + 1
               /\ r.ctxref = r.hw_device_ctx
          ELSE /\ r.type = "NONE"
               /\ r.ctxref = NULL
               /\ r.devs = devs
               /\ IF DeviceConfigs(cfgs) # {}
                  THEN r.hw_pix_fmt = AV_PIX_FMT_NONE
                  ELSE r.hw_pix_fmt = hw_pix_fmt
  /\ \A i \in 1..Len(ctxs) :
       /\ ctxs[i].hwref = NULL <=> ctxs[i].pix_fmt = AV_PIX_FMT_YUV420P
       /\ ctxs[i].hwref # NULL => Negotiated(ctxs[i])
  /\ \A k \in 1..Len(probeLog) :
       (probeLog[k].ev = "alloc" /\ probeLog[k].ok) =>
         /\ k < Len(probeLog)
         /\ probeLog[k + 1].ev = "open"
         /\ probeLog[k + 1].name = probeLog[k].name
  /\ Len(devs) <= Cardinality({ i \in 1..Len(ctxs) : Negotiated(ctxs[i]) })

\* A candidate whose devices all failed to be created was opened in software
C15_FellBackAndOpened ==
  /\ Len(hwcfg) = 3
  /\ devs = <<>> /\ hw_pix_fmt = AV_PIX_FMT_NONE /\ hw_device_ctx = NULL
  /\ decoder_ctx # NULL
  /\ Negotiated(ctxs[decoder_ctx])
  /\ ctxs[decoder_ctx].opened
  /\ ctxs[decoder_ctx].hwref = NULL
  /\ ctxs[decoder_ctx].pix_fmt = AV_PIX_FMT_YUV420P

\* The formats of a list before its terminator
Listed(pix_fmts) == { pix_fmts[i] : i \in 1..(Len(pix_fmts) - 1) }

\* C16: for every list passed by the decoder the callback returns the
\* negotiated hardware pixel format if it occurs in the list and
\* AV_PIX_FMT_NONE otherwise, never another format, and it leaves the
\* negotiated format as it was.
C16_CallbackSelectsNegotiated ==
  fmtCall.called =>
    /\ fmtCall.ret = IF fmtCall.wanted \in Listed(fmtCall.pix_fmts)
                     THEN fmtCall.wanted ELSE AV_PIX_FMT_NONE
    /\ fmtCall.ret \in {fmtCall.wanted, AV_PIX_FMT_NONE}
    /\ hw_pix_fmt = fmtCall.wanted

\* The callback picked the negotiated format from behind other formats
C16_PickedFromList ==
  /\ fmtCall.called
  /\ Len(fmtCall.pix_fmts) = MaxFmts + 1
  /\ fmtCall.pix_fmts[1] # hw_pix_fmt
  /\ fmtCall.pix_fmts[1] \in NegotiatedFormats
  /\ fmtCall.ret = hw_pix_fmt
====
